---- MODULE Spec2Model ----
(***************************************************************************)
(* TurboTrader-AI: the Position Ledger (executor.py, OrderExecutor), the   *)
(* provider boundary it calls (binance_connector.py) and the request       *)
(* handlers and Decision Loop of the dashboard (app.py).                   *)
(*                                                                         *)
(* Conventions.                                                            *)
(*  - A Python dict is a sequence of [key, value] items in insertion       *)
(*    order: assignment to a present key replaces the value in place, to   *)
(*    an absent key appends, del removes the item.                         *)
(*  - Prices are whole numbers; 0 is the 0.0 that get_current_price        *)
(*    returns when the ticker fetch fails.  Quantities are counted in      *)
(*    units of 0.01 (the default order size), so pnl is an integer.        *)
(*  - datetime.now() is a logical clock: the n-th recorded trade carries   *)
(*    timestamp n.                                                         *)
(*  - An order dict is a record; the empty dict {} is the empty function.  *)
(*  - Spec drives the ledger from a single caller, each call one step;     *)
(*    AppSpec runs the dashboard's request handlers and run_bot_loop       *)
(*    threads interleaved; LoopSpec follows one run_bot_loop thread;       *)
(*    ScoreSpec is a caller of indicators.py.                              *)
(***************************************************************************)
EXTENDS Integers, Sequences, FiniteSets, Bags, TLC

VARIABLES
    positions,      \* executor.positions
    trades,         \* executor.trades
    last,           \* the ledger call just made by the single caller (history)
    running,        \* bot_state['running']
    active_coins,   \* bot_state['active_coins']
    workers,        \* the run_bot_loop threads alive, as a bag of their states
    stopper         \* the stop_trading request being served

appVars == <<running, active_coins, workers, stopper>>
vars == <<positions, trades, last, running, active_coins, workers, stopper>>

----------------------------------------------------------------------------
(* Bounds and input sets.  MaxTrades: the single caller makes a call only  *)
(* while the log is shorter than this (close_all_positions: no longer).    *)
(* MaxAppTrades: the dashboard's threads commit to a trade only while the  *)
(* log, with the trades already committed to, is shorter than this.        *)
(* MaxWorkers: start requests are served while fewer threads are alive.    *)

MaxTrades == 2
MaxAppTrades == 2
MaxWorkers == 2

\* a string whose characters the code looks at is a sequence of characters
BTC == <<"B", "T", "C">>
USDT == <<"U", "S", "D", "T">>
BTCUSDT == <<"B", "T", "C", "U", "S", "D", "T">>
ETHUSDT == <<"E", "T", "H", "U", "S", "D", "T">>
NoSymbol == <<>>

Symbols == {BTCUSDT, ETHUSDT}
CoinLists == {<<BTC, ETHUSDT>>}
Scores == {29, 30, 70, 71}
Quantities == {1, 2}
LivePrices == {1, 2}
Reasons == {"AI Signal"}

----------------------------------------------------------------------------
(* Python dict *)

EmptyDict == <<>>

HasKey(d, k) == \E i \in DOMAIN d : d[i].key = k

IndexOf(d, k) == CHOOSE i \in DOMAIN d : d[i].key = k

Get(d, k) == d[IndexOf(d, k)].value

Keys(d) == [i \in DOMAIN d |-> d[i].key]

KeySet(d) == {d[i].key : i \in DOMAIN d}

DictSetAlwaysAppend(d, k, v) == Append(d, [key |-> k, value |-> v])

DictSet(d, k, v) ==
    IF HasKey(d, k)
        THEN [d EXCEPT ![IndexOf(d, k)] = [key |-> k, value |-> v]]
        ELSE Append(d, [key |-> k, value |-> v])

DictDel(d, k) == SelectSeq(d, LAMBDA e : e.key # k)

----------------------------------------------------------------------------
(* Provider boundary: binance_connector.py.  Every method catches the      *)
(* exchange's exception itself and returns a fallback value.               *)

PriceOnError == 0

\* what exchange.fetch_ticker can do: a ticker with a last price, or raise
TickerOutcomes ==
    {[ok |-> TRUE, last |-> p] : p \in LivePrices} \cup {[ok |-> FALSE, last |-> 0]}

get_current_price(ticker) == IF ticker.ok THEN ticker.last ELSE PriceOnError

Order(side, symbol, quantity) ==
    [side |-> side, symbol |-> symbol, amount |-> quantity]

\* exchangeOk = FALSE: create_market_buy_order raised
place_buy_order(symbol, quantity, exchangeOk) ==
    IF exchangeOk THEN Order("buy", symbol, quantity) ELSE EmptyDict

place_sell_order(symbol, quantity, exchangeOk) ==
    IF exchangeOk THEN Order("sell", symbol, quantity) ELSE EmptyDict

----------------------------------------------------------------------------
(* Position Ledger: executor.py *)

Now(log) == Len(log) + 1

BuyTrade(symbol, quantity, price, ts, reason) ==
    [symbol |-> symbol, type |-> "BUY", quantity |-> quantity,
     entry_price |-> price, timestamp |-> ts, reason |-> reason]

SellTrade(symbol, quantity, price, ts, reason) ==
    [symbol |-> symbol, type |-> "SELL", quantity |-> quantity,
     exit_price |-> price, timestamp |-> ts, reason |-> reason]

AppendTradeInFront(log, trade) == <<trade>> \o log

AppendTrade(log, trade) == Append(log, trade)

Pnl(price, entry, quantity) == (price - entry) * quantity

\* pnl_percent = ((price - entry) / entry) * 100 raises ZeroDivisionError
\* exactly when entry is 0.0; its value is only logged
PnlPercentRaises(entry) == entry = 0

\* execute_buy: the ledger after the call and the value returned
execute_buy(pos, log, symbol, quantity, reason, ticker, exchangeOk) ==
    LET price == get_current_price(ticker)
        order == place_buy_order(symbol, quantity, exchangeOk)
        trade == BuyTrade(symbol, quantity, price, Now(log), reason)
    IN  [positions |-> DictSet(pos, symbol, trade),
         trades    |-> AppendTrade(log, trade),
         ret       |-> order]

\* execute_sell: the trade is appended before the position is looked at; a
\* ZeroDivisionError in pnl_percent is caught by the handler's except, which
\* returns {} with the trade appended and the position still in place
execute_sell(pos, log, symbol, quantity, reason, ticker, exchangeOk) ==
    LET price == get_current_price(ticker)
        order == place_sell_order(symbol, quantity, exchangeOk)
        trade == SellTrade(symbol, quantity, price, Now(log), reason)
        log2  == AppendTrade(log, trade)
    IN  IF HasKey(pos, symbol)
            THEN IF PnlPercentRaises(Get(pos, symbol).entry_price)
                     THEN [positions |-> pos, trades |-> log2, ret |-> EmptyDict]
                     ELSE [positions |-> DictDel(pos, symbol), trades |-> log2,
                           ret |-> order]
            ELSE [positions |-> pos, trades |-> log2, ret |-> order]

\* what the provider does for one symbol during close_all_positions: the
\* ticker for close_all's own price fetch, then the ticker and the order
\* outcome inside execute_sell
CloseOutcomes == [t1 : TickerOutcomes, t2 : TickerOutcomes, ex : BOOLEAN]

RECURSIVE CloseLoop(_, _, _, _, _)
CloseLoop(keys, pos, log, closed, oc) ==
    IF keys = <<>>
        THEN [positions |-> pos, trades |-> log, closed |-> closed]
        ELSE LET symbol   == Head(keys)
                 entry    == Get(pos, symbol).entry_price
                 quantity == Get(pos, symbol).quantity
                 price    == get_current_price(oc[symbol].t1)
                 pnl      == Pnl(price, entry, quantity)
                 r        == execute_sell(pos, log, symbol, quantity, "Close All",
                                          oc[symbol].t2, oc[symbol].ex)
             IN  CloseLoop(Tail(keys), r.positions, r.trades,
                           DictSet(closed, symbol, [pnl |-> pnl, order |-> r.ret]),
                           oc)

close_all_positions(pos, log, oc) == CloseLoop(Keys(pos), pos, log, EmptyDict, oc)

----------------------------------------------------------------------------
(* The ledger driven by a single caller: any sequence of execute_buy,      *)
(* execute_sell and close_all_positions calls.  last records the call just *)
(* made: its arguments, what the provider did, what it returned, and how   *)
(* the ledger stood when it was made (the symbols open, those of them      *)
(* opened at the price of a failed fetch, the length of the log).          *)

\* a run_bot_loop thread just started: about to read the flag
NewWorker(coins) ==
    [pc |-> "top", coins |-> coins, i |-> 0, symbol |-> NoSymbol, quantity |-> 0]

IdleStopper ==
    [pc |-> "idle", keys |-> <<>>, symbol |-> NoSymbol, entry |-> 0, quantity |-> 0,
     closed |-> EmptyDict, clean |-> TRUE]

\* the symbols whose open position carries the price of a failed fetch
Unpriced(pos) ==
    {pos[i].key : i \in {j \in DOMAIN pos : pos[j].value.entry_price = PriceOnError}}

NoCall ==
    [op |-> "none", symbol |-> NoSymbol, quantity |-> 0, reason |-> "",
     open0 |-> {}, unpriced0 |-> {}, ntrades0 |-> 0,
     fetch_failed |-> {}, order_failed |-> {},
     ret |-> EmptyDict, closed |-> EmptyDict]

Init ==
    /\ positions = EmptyDict
    /\ trades = <<>>
    /\ last = NoCall
    /\ running = FALSE
    /\ active_coins = <<>>
    /\ workers = EmptyBag
    /\ stopper = IdleStopper

CallBuy(symbol, quantity, reason) ==
    /\ Len(trades) < MaxTrades
    /\ \E ticker \in TickerOutcomes, exchangeOk \in BOOLEAN :
        LET r == execute_buy(positions, trades, symbol, quantity, reason,
                             ticker, exchangeOk)
        IN  /\ positions' = r.positions
            /\ trades' = r.trades
            /\ last' = [op |-> "buy", symbol |-> symbol, quantity |-> quantity,
                        reason |-> reason,
                        open0 |-> KeySet(positions),
                        unpriced0 |-> Unpriced(positions),
                        ntrades0 |-> Len(trades),
                        fetch_failed |-> IF ticker.ok THEN {} ELSE {symbol},
                        order_failed |-> IF exchangeOk THEN {} ELSE {symbol},
                        ret |-> r.ret, closed |-> EmptyDict]
            /\ UNCHANGED appVars

CallSell(symbol, quantity, reason) ==
    /\ Len(trades) < MaxTrades
    /\ \E ticker \in TickerOutcomes, exchangeOk \in BOOLEAN :
        LET r == execute_sell(positions, trades, symbol, quantity, reason,
                              ticker, exchangeOk)
        IN  /\ positions' = r.positions
            /\ trades' = r.trades
            /\ last' = [op |-> "sell", symbol |-> symbol, quantity |-> quantity,
                        reason |-> reason,
                        open0 |-> KeySet(positions),
                        unpriced0 |-> Unpriced(positions),
                        ntrades0 |-> Len(trades),
                        fetch_failed |-> IF ticker.ok THEN {} ELSE {symbol},
                        order_failed |-> IF exchangeOk THEN {} ELSE {symbol},
                        ret |-> r.ret, closed |-> EmptyDict]
            /\ UNCHANGED appVars

CallCloseAll ==
    /\ Len(trades) <= MaxTrades
    /\ \E oc \in [KeySet(positions) -> CloseOutcomes] :
      \E r \in {close_all_positions(positions, trades, oc)} :
        LET open == KeySet(positions)
        IN  /\ positions' = r.positions
            /\ trades' = r.trades
            /\ last' = [op |-> "close_all", symbol |-> NoSymbol, quantity |-> 0,
                        reason |-> "Close All",
                        open0 |-> KeySet(positions),
                        unpriced0 |-> Unpriced(positions),
                        ntrades0 |-> Len(trades),
                        fetch_failed |-> {s \in open : ~oc[s].t1.ok \/ ~oc[s].t2.ok},
                        order_failed |-> {s \in open : ~oc[s].ex},
                        ret |-> EmptyDict, closed |-> r.closed]
            /\ UNCHANGED appVars

Next ==
    \/ \E s \in Symbols, q \in Quantities, r \in Reasons : CallBuy(s, q, r)
    \/ \E s \in Symbols, q \in Quantities, r \in Reasons : CallSell(s, q, r)
    \/ CallCloseAll

Spec == Init /\ [][Next]_vars

----------------------------------------------------------------------------
(* The dashboard: app.py.  Flask serves each request on its own thread and *)
(* start_trading spawns one run_bot_loop thread per request.  A thread's   *)
(* step runs from one access to the shared ledger or bot_state to the      *)
(* next: the provider calls in between touch no shared state, and what     *)
(* they return is drawn when the step that uses it is taken.               *)

BUY_THRESHOLD == 70
SELL_THRESHOLD == 30
DefaultQuantity == 1

EndsWith(s, suffix) ==
    /\ Len(s) >= Len(suffix)
    /\ SubSeq(s, Len(s) - Len(suffix) + 1, Len(s)) = suffix

\* f"{coin}USDT" if not coin.endswith('USDT') else coin
SymbolOf(coin) == IF ~EndsWith(coin, USDT) THEN coin \o USDT ELSE coin

\* coin[:-5]: the string without its last 5 characters
DropLast5(coin) == SubSeq(coin, 1, Len(coin) - 5)

\* the argument run_bot_loop hands to analyze_coin:
\* coin[:-5] if coin.endswith('USDT') else coin
AnalyzeArg(coin) == IF EndsWith(coin, USDT) THEN DropLast5(coin) ELSE coin

\* the symbol whose candles analyze_coin fetches and scores for that argument
AnalyzedSymbol(coin) == SymbolOf(AnalyzeArg(coin))

\* threads are anonymous: one thread of the bag takes a step, or ends
Replace(wk, new) == (workers (-) SetToBag({wk})) (+) SetToBag({new})

Remove(wk) == workers (-) SetToBag({wk})

AliveWorkers == BagCardinality(workers)

\* trades that threads already inside a ledger call are about to append
Pending ==
    BagCardinality([wk \in {x \in BagToSet(workers) : x.pc \in {"buy", "sell"}}
                       |-> workers[wk]])
    + (IF stopper.pc = "closing" THEN 1 + Len(stopper.keys) ELSE 0)

Budget == Len(trades) + Pending < MaxAppTrades

\* history kept with the stop request in hand (clean): since it was issued
\* no provider call has failed and no other request has been served, and no
\* position it found carried the price of a failed fetch
Disturbed(st, cond) ==
    IF st.pc \in {"closing", "done"} /\ cond THEN [st EXCEPT !.clean = FALSE] ELSE st

\* start_trading: sets the flag and spawns a new thread, whatever the state
StartTrading(coins) ==
    /\ AliveWorkers < MaxWorkers
    /\ workers' = workers (+) SetToBag({NewWorker(coins)})
    /\ running' = TRUE
    /\ active_coins' = coins
    /\ stopper' = Disturbed(stopper, TRUE)
    /\ UNCHANGED <<positions, trades, last>>

\* a loop whose thread ends at the top of a cycle whatever the flag says
WorkerTopEndsThread(wk) ==
    /\ wk.pc = "top"
    /\ workers' = Remove(wk)
    /\ UNCHANGED <<positions, trades, last, running, active_coins, stopper>>

\* a loop that goes round again whatever the flag says
WorkerTopIgnoresFlag(wk) ==
    /\ wk.pc = "top"
    /\ workers' = Replace(wk, [wk EXCEPT !.pc = "analyze", !.i = 1])
    /\ UNCHANGED <<positions, trades, last, running, active_coins, stopper>>

\* run_bot_loop: while bot_state['running'], read at the top of each cycle
WorkerTop(wk) ==
    /\ wk.pc = "top"
    /\ workers' = IF running
                       THEN IF wk.coins = <<>>
                                THEN workers
                                ELSE Replace(wk, [wk EXCEPT !.pc = "analyze", !.i = 1])
                       ELSE Remove(wk)
    /\ UNCHANGED <<positions, trades, last, running, active_coins, stopper>>

\* the worker after the coin at index i: the next coin, or the sleep that
\* ends the cycle
NextCoin(wk) ==
    IF wk.i < Len(wk.coins)
        THEN [wk EXCEPT !.pc = "analyze", !.i = wk.i + 1,
                        !.symbol = NoSymbol, !.quantity = 0]
        ELSE [wk EXCEPT !.pc = "top", !.i = 0, !.symbol = NoSymbol, !.quantity = 0]

\* the except of run_bot_loop encloses the whole for loop: the cycle ends
AbortCycle(wk) ==
    [wk EXCEPT !.pc = "top", !.i = 0, !.symbol = NoSymbol, !.quantity = 0]

AnalyzeOutcomes ==
    {[kind |-> "raise", score |-> 0], [kind |-> "no1h", score |-> 0]}
    \cup {[kind |-> "score", score |-> s] : s \in Scores}

\* the signal test with the thresholds themselves counted as signals
DecisionAtThreshold(score, symbol, pos) ==
    IF score >= BUY_THRESHOLD /\ ~HasKey(pos, symbol) THEN "buy"
    ELSE IF score <= SELL_THRESHOLD /\ HasKey(pos, symbol) THEN "sell"
    ELSE "none"

\* BUY signal / SELL signal of run_bot_loop for one coin
Decision(score, symbol, pos) ==
    IF score > BUY_THRESHOLD /\ ~HasKey(pos, symbol) THEN "buy"
    ELSE IF score < SELL_THRESHOLD /\ HasKey(pos, symbol) THEN "sell"
    ELSE "none"

\* one coin of the cycle, analyze_coin having come back with out: the signal
\* test against the ledger; a buy or sell it decides on is carried out in a
\* later step
Evaluate(wk, out) ==
    LET symbol == SymbolOf(wk.coins[wk.i])
        d      == IF out.kind = "score"
                      THEN Decision(out.score, symbol, positions) ELSE "none"
    IN  /\ d # "none" => Budget
        /\ workers' = Replace(wk,
               IF out.kind = "raise" THEN AbortCycle(wk)
               ELSE IF d = "buy"
                   THEN [wk EXCEPT !.pc = "buy", !.symbol = symbol,
                                   !.quantity = DefaultQuantity]
               ELSE IF d = "sell"
                   THEN [wk EXCEPT !.pc = "sell", !.symbol = symbol,
                                   !.quantity = Get(positions, symbol).quantity]
               ELSE NextCoin(wk))

WorkerAnalyze(wk) ==
    /\ wk.pc = "analyze"
    /\ \E out \in AnalyzeOutcomes : Evaluate(wk, out)
    /\ UNCHANGED <<positions, trades, last, running, active_coins, stopper>>

WorkerBuy(wk) ==
    /\ wk.pc = "buy"
    /\ \E ticker \in TickerOutcomes, exchangeOk \in BOOLEAN :
        LET r  == execute_buy(positions, trades, wk.symbol, wk.quantity,
                              "AI Signal", ticker, exchangeOk)
        IN  /\ positions' = r.positions
            /\ trades' = r.trades
            /\ stopper' = Disturbed(stopper, ~ticker.ok \/ ~exchangeOk)
    /\ workers' = Replace(wk, NextCoin(wk))
    /\ UNCHANGED <<last, running, active_coins>>

WorkerSell(wk) ==
    /\ wk.pc = "sell"
    /\ \E ticker \in TickerOutcomes, exchangeOk \in BOOLEAN :
        LET r  == execute_sell(positions, trades, wk.symbol, wk.quantity,
                               "AI Signal", ticker, exchangeOk)
        IN  /\ positions' = r.positions
            /\ trades' = r.trades
            /\ stopper' = Disturbed(stopper, ~ticker.ok \/ ~exchangeOk)
    /\ workers' = Replace(wk, NextCoin(wk))
    /\ UNCHANGED <<last, running, active_coins>>

\* manual_buy / manual_sell, for requests that leave quantity at its default
\* of 0.01
ManualBuy(symbol, quantity) ==
    /\ Budget
    /\ \E ticker \in TickerOutcomes, exchangeOk \in BOOLEAN :
        LET r == execute_buy(positions, trades, symbol, quantity, "Manual",
                             ticker, exchangeOk)
        IN  /\ positions' = r.positions
            /\ trades' = r.trades
    /\ stopper' = Disturbed(stopper, TRUE)
    /\ UNCHANGED <<last, running, active_coins, workers>>

ManualSell(symbol, quantity) ==
    /\ Budget
    /\ \E ticker \in TickerOutcomes, exchangeOk \in BOOLEAN :
        LET r == execute_sell(positions, trades, symbol, quantity, "Manual",
                              ticker, exchangeOk)
        IN  /\ positions' = r.positions
            /\ trades' = r.trades
    /\ stopper' = Disturbed(stopper, TRUE)
    /\ UNCHANGED <<last, running, active_coins, workers>>

\* close_all_positions reads self.positions[symbol] of each key of its
\* snapshot; a key deleted meanwhile raises KeyError, which its except logs
\* before the loop goes on
RECURSIVE SkipMissing(_, _)
SkipMissing(keys, pos) ==
    IF keys = <<>> \/ HasKey(pos, Head(keys))
        THEN keys
        ELSE SkipMissing(Tail(keys), pos)

\* the stop request once the sell of one key is done: on to the next key
\* still present, or the end of stop_trading, where the request returns and
\* its local closed is gone
StopAdvance(st, keys, pos, closed) ==
    LET rest == SkipMissing(keys, pos)
    IN  IF rest = <<>>
            THEN [st EXCEPT !.pc = "done", !.keys = <<>>, !.symbol = NoSymbol,
                            !.entry = 0, !.quantity = 0, !.closed = EmptyDict]
            ELSE [st EXCEPT !.pc = "closing", !.keys = Tail(rest),
                            !.symbol = Head(rest),
                            !.entry = Get(pos, Head(rest)).entry_price,
                            !.quantity = Get(pos, Head(rest)).quantity,
                            !.closed = closed]

\* stop_trading up to the first price fetch of close_all_positions
StopBegin ==
    /\ stopper.pc \in {"idle", "done"}
    /\ Len(trades) + Pending + Len(positions) <= MaxAppTrades
    /\ running' = FALSE
    /\ LET st == StopAdvance(
                     [IdleStopper EXCEPT !.clean = Unpriced(positions) = {}],
                     Keys(positions), positions, EmptyDict)
       IN  stopper' = st
    /\ UNCHANGED <<positions, trades, last, active_coins, workers>>

\* close_all_positions for the key in hand: pnl from its own price fetch,
\* execute_sell, the result entry; then the next key or the end of the request
StopClose ==
    /\ stopper.pc = "closing"
    /\ \E t1 \in TickerOutcomes, t2 \in TickerOutcomes, exchangeOk \in BOOLEAN :
        LET price  == get_current_price(t1)
            pnl    == Pnl(price, stopper.entry, stopper.quantity)
            r      == execute_sell(positions, trades, stopper.symbol,
                                   stopper.quantity, "Close All", t2, exchangeOk)
            closed == DictSet(stopper.closed, stopper.symbol,
                              [pnl |-> pnl, order |-> r.ret])
            st     == StopAdvance(
                          Disturbed(stopper, ~t1.ok \/ ~t2.ok \/ ~exchangeOk),
                          stopper.keys, r.positions, closed)
        IN  /\ positions' = r.positions
            /\ trades' = r.trades
            /\ stopper' = st
    /\ UNCHANGED <<last, running, active_coins, workers>>

AppNext ==
    \/ \E coins \in CoinLists : StartTrading(coins)
    \/ StopBegin
    \/ StopClose
    \/ \E s \in Symbols : ManualBuy(s, DefaultQuantity)
    \/ \E s \in Symbols : ManualSell(s, DefaultQuantity)
    \/ \E wk \in BagToSet(workers) : WorkerTop(wk)
    \/ \E wk \in BagToSet(workers) : WorkerAnalyze(wk)
    \/ \E wk \in BagToSet(workers) : WorkerBuy(wk)
    \/ \E wk \in BagToSet(workers) : WorkerSell(wk)

AppSpec == Init /\ [][AppNext]_vars

\* a step of some run_bot_loop thread
WorkerStep ==
    \E wk \in BagToSet(workers) :
        WorkerTop(wk) \/ WorkerAnalyze(wk) \/ WorkerBuy(wk) \/ WorkerSell(wk)

\* the start and stop requests and the run_bot_loop threads: everything that
\* reads or writes bot_state['running'] or starts a thread (manual orders
\* touch the ledger only)
FairNext ==
    \/ \E coins \in CoinLists : StartTrading(coins)
    \/ StopBegin
    \/ StopClose
    \/ \E wk \in BagToSet(workers) : WorkerTop(wk)
    \/ \E wk \in BagToSet(workers) : WorkerAnalyze(wk)
    \/ \E wk \in BagToSet(workers) : WorkerBuy(wk)
    \/ \E wk \in BagToSet(workers) : WorkerSell(wk)

\* the threads are scheduled fairly: while a run_bot_loop thread is alive
\* (its provider calls and its sleep returning), one of them takes its next
\* step
FairSpec == Init /\ [][FairNext]_vars /\ WF_vars(WorkerStep)

----------------------------------------------------------------------------
(* The Decision Loop on its own: one run_bot_loop thread, with the stop,   *)
(* start and manual requests that can arrive while it runs.  last records  *)
(* the thread's latest evaluation of a coin: the ledger symbol it tested,  *)
(* the symbol analyze_coin scored and what analyze_coin handed back.       *)

LoopStart(coins) ==
    /\ AliveWorkers = 0
    /\ StartTrading(coins)

LoopAnalyze(wk) ==
    /\ wk.pc = "analyze"
    /\ \E out \in AnalyzeOutcomes :
        /\ Evaluate(wk, out)
        /\ last' = [op |-> "evaluate", symbol |-> SymbolOf(wk.coins[wk.i]),
                    analyzed |-> AnalyzedSymbol(wk.coins[wk.i]),
                    kind |-> out.kind, score |-> out.score]
    /\ UNCHANGED <<positions, trades, running, active_coins, stopper>>

LoopNext ==
    \/ \E coins \in CoinLists : LoopStart(coins)
    \/ StopBegin
    \/ StopClose
    \/ \E s \in Symbols : ManualBuy(s, DefaultQuantity)
    \/ \E s \in Symbols : ManualSell(s, DefaultQuantity)
    \/ \E wk \in BagToSet(workers) : WorkerTop(wk)
    \/ \E wk \in BagToSet(workers) : LoopAnalyze(wk)
    \/ \E wk \in BagToSet(workers) : WorkerBuy(wk)
    \/ \E wk \in BagToSet(workers) : WorkerSell(wk)

LoopSpec == Init /\ [][LoopNext]_vars

----------------------------------------------------------------------------
(* indicators.py computes in binary floating point, and three of its       *)
(* branches turn on exact comparisons of computed values (std == 0,        *)
(* total_weight == 0).  A number is m * 2^e with an odd mantissa m of at   *)
(* most MantissaBits bits (0 is m = 0, e = 0); every operation returns the *)
(* exact result rounded to the nearest such number, ties to the even       *)
(* mantissa, as IEEE 754 arithmetic does with 53 bits.  Prices are         *)
(* positive, so no operation here divides by zero; exponents are not       *)
(* bounded.                                                                *)

MantissaBits == 7

Abs(n) == IF n < 0 THEN 0 - n ELSE n

Sgn(n) == IF n < 0 THEN 0 - 1 ELSE IF n = 0 THEN 0 ELSE 1

RECURSIVE BitLen(_)
BitLen(a) == IF a = 0 THEN 0 ELSE 1 + BitLen(a \div 2)

RECURSIVE Canon(_, _)
Canon(M, E) ==
    IF M = 0 THEN [m |-> 0, e |-> 0]
    ELSE IF M % 2 = 0 THEN Canon(M \div 2, E + 1)
    ELSE [m |-> M, e |-> E]

\* |M| = a has s bits too many: drop them, rounding to nearest, ties to even
RoundOff(sg, a, E, s) ==
    LET q  == a \div (2 ^ s)
        r  == a % (2 ^ s)
        h  == 2 ^ (s - 1)
        up == r > h \/ (r = h /\ q % 2 = 1)
    IN  Canon(sg * (IF up THEN q + 1 ELSE q), E + s)

\* the number nearest to M * 2^E
Fl(M, E) ==
    IF BitLen(Abs(M)) <= MantissaBits
        THEN Canon(M, E)
        ELSE RoundOff(Sgn(M), Abs(M), E, BitLen(Abs(M)) - MantissaBits)

\* the number nearest to the integer n (float(n))
F(n) == Fl(n, 0)

FNeg(x) == [m |-> 0 - x.m, e |-> x.e]

\* x + y; an operand too small to reach the rounding position only decides
\* on which side of the larger one the sum lies
FAddOrdered(hi, lo) ==
    IF hi.e - lo.e > 2 * MantissaBits + 2
        THEN Fl(hi.m * 2 ^ (MantissaBits + 2) + Sgn(lo.m), hi.e - MantissaBits - 2)
        ELSE Fl(hi.m * 2 ^ (hi.e - lo.e) + lo.m, lo.e)

FAdd(x, y) ==
    IF x.m = 0 THEN y
    ELSE IF y.m = 0 THEN x
    ELSE IF x.e >= y.e THEN FAddOrdered(x, y) ELSE FAddOrdered(y, x)

FSub(x, y) == FAdd(x, FNeg(y))

FMul(x, y) == Fl(x.m * y.m, x.e + y.e)

\* x / y for y # 0: the quotient to 2 * MantissaBits + 1 further bits, a last
\* bit recording a remainder
FDivBits(sg, n, d, E) ==
    Fl(sg * (2 * (n \div d) + (IF n % d = 0 THEN 0 ELSE 1)), E - 1)

FDiv(x, y) ==
    FDivBits(Sgn(x.m) * Sgn(y.m), Abs(x.m) * 2 ^ (2 * MantissaBits + 1), Abs(y.m),
             x.e - y.e - (2 * MantissaBits + 1))

RECURSIVE ISqrt(_)
ISqrt(n) ==
    IF n < 2 THEN n
    ELSE LET s == 2 * ISqrt(n \div 4)
         IN  IF (s + 1) * (s + 1) <= n THEN s + 1 ELSE s

FSqrtBits(n, r, E) == Fl(2 * r + (IF r * r = n THEN 0 ELSE 1), E - 1)

\* sqrt(x) for x >= 0, from the integer root of the mantissa scaled by an
\* even power of two
FSqrtScaled(n, E) == FSqrtBits(n, ISqrt(n), E \div 2)

FSqrt(x) ==
    IF x.m = 0 THEN x
    ELSE LET k == 2 * MantissaBits + 2 + (x.e % 2)
         IN  FSqrtScaled(x.m * 2 ^ k, x.e - k)

FLt(x, y) == FSub(x, y).m < 0

FLe(x, y) == FSub(x, y).m <= 0

\* the value of x in halves, to the nearest, and no further from 0 than 12
Halves(x) ==
    LET k == x.e + 1
        a == IF k >= 0
                 THEN IF k > 4 THEN 12 ELSE Abs(x.m) * 2 ^ k
                 ELSE IF 0 - k > MantissaBits + 1 THEN 0
                 ELSE (Abs(x.m) + 2 ^ (0 - k - 1)) \div (2 ^ (0 - k))
    IN  Sgn(x.m) * (IF a > 12 THEN 12 ELSE a)

\* e^(h/2) * 2^16 for h = -12 .. 12
ExpTable ==
    <<162, 268, 442, 728, 1200, 1979, 3263, 5380, 8869, 14623, 24109, 39750,
      65536, 108051, 178145, 293712, 484249, 798392, 1316326, 2170254,
      3578144, 5899363, 9726405, 16036130, 26439109>>

\* np.exp, taken at its argument rounded to the nearest half
FExp(x) == Fl(ExpTable[Halves(x) + 13], 0 - 16)

\* ln(1 + j/8) * 2^16 for j = 0 .. 7, and ln(2) * 2^16
LnTable == <<0, 7719, 14624, 20870, 26573, 31818, 36675, 41196>>

Ln2 == 45426

\* np.log for x > 0, taken at its argument cut to 3 bits after the leading one
FLogParts(m, L, e) ==
    Fl((e + L - 1) * Ln2 + LnTable[((m * 8) \div (2 ^ (L - 1))) - 8 + 1], 0 - 16)

FLog(x) == FLogParts(x.m, BitLen(x.m), x.e)

----------------------------------------------------------------------------
(* indicators.py: TechnicalIndicators.  Arrays are sequences of numbers; a  *)
(* call that raises returns Raised.                                        *)

MaxLen == 4
RSI_PERIOD == 14
LOOKBACK == 100
SIGMOID_K == 1

Zero == F(0)
One == F(1)
Fifty == F(50)
Hundred == F(100)

\* 1e-10, to three bits
Epsilon == Fl(7, 0 - 36)

Raised == [raised |-> TRUE]

Returned(v) == [raised |-> FALSE, value |-> v]

\* data[-n:]
LastN(data, n) ==
    IF Len(data) <= n THEN data ELSE SubSeq(data, Len(data) - n + 1, Len(data))

\* np.full_like(data, v), np.full(n, v)
Full(n, v) == [i \in 1..n |-> v]

\* the sum of a short array: the additions in index order
RECURSIVE SumFrom(_, _, _)
SumFrom(a, i, acc) ==
    IF i > Len(a) THEN acc ELSE SumFrom(a, i + 1, FAdd(acc, a[i]))

Sum(a) == IF a = <<>> THEN Zero ELSE SumFrom(a, 2, a[1])

\* np.mean of a non-empty array
Mean(a) == FDiv(Sum(a), F(Len(a)))

SquaresAbout(a, mean) == [i \in 1..Len(a) |-> FMul(FSub(a[i], mean), FSub(a[i], mean))]

\* np.std of a non-empty array: sqrt(mean(|a - mean(a)|^2))
Std(a) == CHOOSE r \in {FSqrt(Mean(SquaresAbout(a, mean))) : mean \in {Mean(a)}} : TRUE

\* 1 / (1 + e^(-k z)), scaled to 0-100
SigmoidPercent(z) ==
    FMul(FDiv(One, FAdd(One, FExp(FMul(FNeg(F(SIGMOID_K)), z)))), Hundred)

Normalized(data, mean, std) ==
    IF std = Zero
        THEN Full(Len(data), Fifty)
        ELSE [i \in 1..Len(data) |-> SigmoidPercent(FDiv(FSub(data[i], mean), std))]

sigmoid_normalize(data) ==
    IF Len(data) < 2
        THEN data
        ELSE CHOOSE r \in {Normalized(data, mean, std) :
                               mean \in {Mean(data)}, std \in {Std(data)}} : TRUE

\* np.diff(closes)
Diff(closes) == [i \in 1..(Len(closes) - 1) |-> FSub(closes[i + 1], closes[i])]

\* np.where(deltas > 0, deltas, 0), np.where(deltas < 0, -deltas, 0)
Gains(deltas) == [i \in 1..Len(deltas) |-> IF deltas[i].m > 0 THEN deltas[i] ELSE Zero]

Losses(deltas) == [i \in 1..Len(deltas) |-> IF deltas[i].m < 0 THEN FNeg(deltas[i]) ELSE Zero]

\* avg_gains / avg_losses of calculate_rsi over the changes x, for an array
\* of n closes: zeros up to index period, there the mean of the first period
\* changes, then Wilder's recurrence; acc holds the entries already computed
RECURSIVE WilderAverage(_, _, _, _)
WilderAverage(x, period, n, acc) ==
    IF Len(acc) = n THEN acc
    ELSE LET j == Len(acc) + 1
         IN  WilderAverage(x, period, n,
                 Append(acc,
                     IF j <= period THEN Zero
                     ELSE IF j = period + 1 THEN Mean(SubSeq(x, 1, period))
                     ELSE FDiv(FAdd(FMul(acc[j - 1], F(period - 1)), x[j - 1]),
                               F(period))))

\* 100 - (100 / (1 + avg_gain / (avg_loss + 1e-10)))
RsiOf(avg_gain, avg_loss) ==
    FSub(Hundred, FDiv(Hundred, FAdd(One, FDiv(avg_gain, FAdd(avg_loss, Epsilon)))))

RsiSeries(avg_gains, avg_losses) ==
    [i \in 1..Len(avg_gains) |-> RsiOf(avg_gains[i], avg_losses[i])]

calculate_rsi(closes, period) ==
    IF Len(closes) < period + 1
        THEN Full(Len(closes), Fifty)
        ELSE RsiSeries(WilderAverage(Gains(Diff(closes)), period, Len(closes), <<>>),
                       WilderAverage(Losses(Diff(closes)), period, Len(closes), <<>>))

\* (closes / np.roll(closes, 1))[1:]
Ratios(closes) == [i \in 1..(Len(closes) - 1) |-> FDiv(closes[i + 1], closes[i])]

Returns(closes) == [i \in 1..(Len(closes) - 1) |-> FSub(Ratios(closes)[i], One)]

LogReturns(closes) == [i \in 1..(Len(closes) - 1) |-> FLog(Ratios(closes)[i])]

\* a[-1] of a non-empty array
Last(a) == a[Len(a)]

calculate_price_score(closes) ==
    IF Len(closes) < 2
        THEN Fifty
        ELSE CHOOSE r \in {Last(sigmoid_normalize(returns)) :
                               returns \in {Returns(closes)}} : TRUE

calculate_volume_score(volumes) ==
    IF Len(volumes) < 2 THEN Fifty ELSE Last(sigmoid_normalize(LastN(volumes, LOOKBACK)))

calculate_volatility_score(closes) ==
    IF Len(closes) < 2
        THEN Fifty
        ELSE CHOOSE r \in {Last(sigmoid_normalize(Full(Len(closes) - 1, volatility))) :
                               volatility \in {Std(LogReturns(closes))}} : TRUE

\* total_weight, with 1.0 in place of a zero total
TotalWeight(w) ==
    LET total == FAdd(FAdd(FAdd(w[1], w[2]), w[3]), w[4])
    IN  IF total = Zero THEN One ELSE total

\* the average taken as if the weights summed to 100
CombineOverHundred(w, price, volume, rsi_normalized, volatility) ==
    FDiv(FAdd(FAdd(FAdd(FMul(w[1], price), FMul(w[2], volume)),
                   FMul(w[3], rsi_normalized)),
              FMul(w[4], volatility)),
         Hundred)

\* the weighted average of calculate_combined_score
Combine(w, price, volume, rsi_normalized, volatility) ==
    FDiv(FAdd(FAdd(FAdd(FMul(w[1], price), FMul(w[2], volume)),
                   FMul(w[3], rsi_normalized)),
              FMul(w[4], volatility)),
         TotalWeight(w))

Components(price, volume, rsi, rsi_normalized, volatility, combined) ==
    [price |-> price, volume |-> volume, rsi |-> rsi,
     rsi_normalized |-> rsi_normalized, volatility |-> volatility,
     combined |-> combined]

\* the result once the four scores are there; rsi_score[-1] and rsi[-1] raise
\* IndexError on an empty array
CombinedResult(w, price, volume, rsi, rsi_score, volatility) ==
    IF rsi_score = <<>>
        THEN Raised
        ELSE CHOOSE r \in {Returned(Components(price, volume, Last(rsi), Last(rsi_score),
                                               volatility, combined)) :
                               combined \in {Combine(w, price, volume, Last(rsi_score),
                                                     volatility)}} : TRUE

\* w = <<price_weight, volume_weight, rsi_weight, volatility_weight>>
calculate_combined_score(closes, volumes, w, rsi_period) ==
    CHOOSE r \in {CombinedResult(w, price_score, volume_score, rsi,
                                 sigmoid_normalize(LastN(rsi, LOOKBACK)),
                                 volatility_score) :
                      price_score \in {calculate_price_score(closes)},
                      volume_score \in {calculate_volume_score(volumes)},
                      rsi \in {calculate_rsi(closes, rsi_period)},
                      volatility_score \in {calculate_volatility_score(closes)}} : TRUE

\* df['close'].values, df['volume'].values
ClosesOf(df) == [i \in 1..Len(df) |-> df[i].close]

VolumesOf(df) == [i \in 1..Len(df) |-> df[i].volume]

\* weights.get(key, default)
WeightOf(weights, key, default) ==
    IF key \in DOMAIN weights THEN weights[key] ELSE default

\* get_multi_timeframe_scores: the loop over ohlcv_dict.items(), from item i
\* on; a frame of fewer than 2 candles gets (50.0, {}) without being scored,
\* and an exception of calculate_combined_score is not caught
RECURSIVE TimeframeLoop(_, _, _, _)
TimeframeLoop(ohlcv_dict, w, i, results) ==
    IF i > Len(ohlcv_dict)
        THEN Returned(results)
        ELSE LET timeframe == ohlcv_dict[i].key
                 df        == ohlcv_dict[i].value
             IN  IF Len(df) < 2
                     THEN TimeframeLoop(ohlcv_dict, w, i + 1,
                              DictSet(results, timeframe,
                                      [score |-> Fifty, components |-> EmptyDict]))
                     ELSE CHOOSE r \in
                              {IF c.raised
                                   THEN Raised
                                   ELSE TimeframeLoop(ohlcv_dict, w, i + 1,
                                            DictSet(results, timeframe,
                                                    [score |-> c.value.combined,
                                                     components |-> c.value])) :
                               c \in {calculate_combined_score(
                                          ClosesOf(df), VolumesOf(df), w,
                                          RSI_PERIOD)}} : TRUE

get_multi_timeframe_scores(ohlcv_dict, weights) ==
    TimeframeLoop(ohlcv_dict,
                  <<WeightOf(weights, "price", F(70)), WeightOf(weights, "volume", F(10)),
                    WeightOf(weights, "rsi", F(10)),
                    WeightOf(weights, "volatility", F(10))>>,
                  1, EmptyDict)

----------------------------------------------------------------------------
(* A caller of indicators.py: it has one call to make, on any of the       *)
(* arrays below, and makes it.  last holds the call, and what it returned  *)
(* once it is made.  Candles give closes and volumes of one length.        *)

Samples == {F(0 - 1), F(10), F(51)}
ClosePrices == {F(1), F(2), F(3)}
Volumes == {F(10), F(51)}
Candles ==
    {[close |-> F(1), volume |-> F(10)], [close |-> F(2), volume |-> F(10)],
     [close |-> F(2), volume |-> F(51)], [close |-> F(3), volume |-> F(51)]}
Periods == {2, RSI_PERIOD}
WeightSets ==
    {<<F(70), F(10), F(10), F(10)>>, <<F(0), F(0), F(0), F(0)>>,
     <<F(7), F(0), F(0), F(0)>>, <<F(0), F(0), F(0), F(3)>>}

Arrays(values) == UNION {[1..n -> values] : n \in 0..MaxLen}

\* the frames handed to get_multi_timeframe_scores: the first candles of a
\* flat market and of one that moves
Frames ==
    {SubSeq(series, 1, n) :
         n \in 0..MaxLen,
         series \in {[i \in 1..MaxLen |-> [close |-> F(2), volume |-> F(10)]],
                     [i \in 1..MaxLen |-> [close |-> F(1 + (i % 3)),
                                           volume |-> F(10 + 41 * (i % 2))]]}}

\* ohlcv_dict: the 1h frame alone, or the 1h and the 4h frame
OhlcvDicts ==
    {<<[key |-> "1h", value |-> df]>> : df \in Frames}
    \cup {<<[key |-> "1h", value |-> df1], [key |-> "4h", value |-> df2]>> :
              df1 \in Frames, df2 \in Frames}

\* the weights dict: empty (every weight its default), or a price weight only
WeightDicts == {<<>>, [k \in {"price"} |-> F(7)]}

NotCalled == [called |-> FALSE]

Calls ==
    [op : {"sigmoid_normalize"}, data : Arrays(Samples), ret : {NotCalled}]
    \cup [op : {"calculate_rsi"}, closes : Arrays(ClosePrices), period : Periods,
          ret : {NotCalled}]
    \cup [op : {"calculate_price_score", "calculate_volatility_score"},
          closes : Arrays(ClosePrices), ret : {NotCalled}]
    \cup [op : {"calculate_volume_score"}, volumes : Arrays(Volumes), ret : {NotCalled}]
    \cup [op : {"calculate_combined_score"}, df : Arrays(Candles),
          weights : WeightSets, period : Periods, ret : {NotCalled}]
    \cup [op : {"get_multi_timeframe_scores"}, ohlcv_dict : OhlcvDicts,
          weights : WeightDicts, ret : {NotCalled}]

ScoreInit ==
    /\ last \in Calls
    /\ positions = EmptyDict
    /\ trades = <<>>
    /\ running = FALSE
    /\ active_coins = <<>>
    /\ workers = EmptyBag
    /\ stopper = IdleStopper

\* the call in hand is one of op, not made yet
ToCall(op) == last.op = op /\ last.ret = NotCalled

CallSigmoidNormalize ==
    /\ ToCall("sigmoid_normalize")
    /\ last' = [last EXCEPT !.ret = Returned(sigmoid_normalize(last.data))]
    /\ UNCHANGED <<positions, trades, appVars>>

CallCalculateRsi ==
    /\ ToCall("calculate_rsi")
    /\ last' = [last EXCEPT !.ret = Returned(calculate_rsi(last.closes, last.period))]
    /\ UNCHANGED <<positions, trades, appVars>>

CallPriceScore ==
    /\ ToCall("calculate_price_score")
    /\ last' = [last EXCEPT !.ret = Returned(calculate_price_score(last.closes))]
    /\ UNCHANGED <<positions, trades, appVars>>

CallVolumeScore ==
    /\ ToCall("calculate_volume_score")
    /\ last' = [last EXCEPT !.ret = Returned(calculate_volume_score(last.volumes))]
    /\ UNCHANGED <<positions, trades, appVars>>

CallVolatilityScore ==
    /\ ToCall("calculate_volatility_score")
    /\ last' = [last EXCEPT !.ret = Returned(calculate_volatility_score(last.closes))]
    /\ UNCHANGED <<positions, trades, appVars>>

CallCombinedScore ==
    /\ ToCall("calculate_combined_score")
    /\ last' = [last EXCEPT !.ret =
                    calculate_combined_score(ClosesOf(last.df), VolumesOf(last.df),
                                             last.weights, last.period)]
    /\ UNCHANGED <<positions, trades, appVars>>

CallMultiTimeframeScores ==
    /\ ToCall("get_multi_timeframe_scores")
    /\ last' = [last EXCEPT !.ret =
                    get_multi_timeframe_scores(last.ohlcv_dict, last.weights)]
    /\ UNCHANGED <<positions, trades, appVars>>

ScoreNext ==
    \/ CallSigmoidNormalize
    \/ CallCalculateRsi
    \/ CallPriceScore
    \/ CallVolumeScore
    \/ CallVolatilityScore
    \/ CallCombinedScore
    \/ CallMultiTimeframeScores

ScoreSpec == ScoreInit /\ [][ScoreNext]_vars

----------------------------------------------------------------------------
(* Claims about the ledger under a single caller (Spec) *)

\* C1: in every reachable state of the ledger, whatever sequence of buy, sell
\* and close_all calls led to it, no two open positions have the same symbol.
C1_OnePositionPerSymbol ==
    \A i, j \in DOMAIN positions :
        positions[i].key = positions[j].key => i = j

\* C1 witness: a buy has just been made on a symbol that was already open.
C1_Witness ==
    /\ last.op = "buy"
    /\ last.symbol \in last.open0
    /\ Len(positions) = 1

\* C2: a buy on a symbol that already has an open position fails (the only
\* failure indicator execute_buy has is the empty dict), leaves the existing
\* position as it was and appends no trade.
C2_DuplicateBuyRejected ==
    [][(last'.op = "buy" /\ HasKey(positions, last'.symbol))
           => /\ last'.ret = EmptyDict
              /\ positions' = positions
              /\ trades' = trades]_vars

\* C3: a sell on a symbol with no open position fails, and leaves the trade
\* log and the open positions as they were.
C3_SellWithoutPositionRejected ==
    [][(last'.op = "sell" /\ ~HasKey(positions, last'.symbol))
           => /\ last'.ret = EmptyDict
              /\ trades' = trades
              /\ positions' = positions]_vars

\* the provider failed no call during the ledger call c describes
ProviderOk(c) == c.fetch_failed = {} /\ c.order_failed = {}

\* C4: a buy of q of S made with no position open for S, followed at once by
\* a sell of q of S (the provider failing neither), leaves no position for S
\* and has appended exactly a BUY then a SELL of S, the BUY without a
\* realized_pnl field and the SELL with realized_pnl = (exit - entry) * q.
C4_RoundTrip ==
    [][(/\ last.op = "buy"
        /\ last.symbol \notin last.open0
        /\ ProviderOk(last)
        /\ last'.op = "sell"
        /\ last'.symbol = last.symbol
        /\ last'.quantity = last.quantity
        /\ ProviderOk(last'))
           => LET n == last.ntrades0
                  b == trades'[n + 1]
                  s == trades'[n + 2]
              IN  /\ ~HasKey(positions', last.symbol)
                  /\ Len(trades') = n + 2
                  /\ b.type = "BUY" /\ b.symbol = last.symbol
                  /\ s.type = "SELL" /\ s.symbol = last.symbol
                  /\ "realized_pnl" \notin DOMAIN b
                  /\ "realized_pnl" \in DOMAIN s
                  /\ s.realized_pnl = (s.exit_price - b.entry_price) * last.quantity]_vars

\* an entry of close_all's result that reports a closed position carries its pnl
IsClosedEntry(e) == "pnl" \in DOMAIN e

\* C5: after a close_all made with two or more positions open (each opened
\* at a live price) during which the provider failed the sell order of
\* exactly one symbol (and nothing else), every other symbol is closed and in
\* the result, and the failed symbol is in the result as an entry that does
\* not report it closed.
C5_CloseAllPartialFailure ==
    (/\ last.op = "close_all"
     /\ Cardinality(last.open0) >= 2
     /\ last.unpriced0 = {}
     /\ Cardinality(last.order_failed) = 1
     /\ last.fetch_failed = {})
        => /\ \A s \in last.open0 \ last.order_failed :
                  /\ ~HasKey(positions, s)
                  /\ HasKey(last.closed, s)
                  /\ IsClosedEntry(Get(last.closed, s))
           /\ \A f \in last.order_failed :
                  /\ HasKey(last.closed, f)
                  /\ ~IsClosedEntry(Get(last.closed, f))

\* C9: a buy or sell during which the provider fails the price fetch or the
\* order placement returns the failure indicator and changes neither the
\* open positions nor the trade log.
C9_ProviderFailureChangesNothing ==
    [][(/\ last'.op \in {"buy", "sell"}
        /\ (last'.fetch_failed # {} \/ last'.order_failed # {}))
           => /\ last'.ret = EmptyDict
              /\ positions' = positions
              /\ trades' = trades]_vars

----------------------------------------------------------------------------
(* Claims about the dashboard's threads (AppSpec) *)

\* C6: once a stop request has completed, with every provider call since it
\* was issued succeeding and no other request served since, running is false
\* and no position is open, however the stop interleaved with the Decision
\* Loop's cycle.
C6_StopLeavesNothingOpen ==
    (stopper.pc = "done" /\ stopper.clean)
        => (running = FALSE /\ positions = EmptyDict)

\* C7: the Decision Loop's buy of S, decided on finding no position open for
\* S, never lands on a position for S opened in between: when the worker's
\* execute_buy runs, S has no open position.
C7_LoopBuyNeverOverwrites ==
    [][\A wk \in BagToSet(workers) :
           (wk.pc = "buy" /\ workers' = Replace(wk, NextCoin(wk)))
               => ~HasKey(positions, wk.symbol)]_vars

\* C8: at most one Decision Loop worker is alive in any reachable state.
C8_AtMostOneWorker ==
    AliveWorkers <= 1

\* C10: every step of every operation leaves the trades already recorded in
\* place and in order: the old log is a prefix of the new one.
C10_AppendOnly ==
    [][/\ Len(trades') >= Len(trades)
       /\ SubSeq(trades', 1, Len(trades)) = trades]_vars

\* C10 witness: the log holds a trade appended by the Decision Loop followed
\* by one appended by stop's close_all.
C10_Witness ==
    /\ Len(trades) = 2
    /\ trades[1].reason = "AI Signal"
    /\ trades[2].reason = "Close All"

----------------------------------------------------------------------------
(* Claims about the Decision Loop (LoopSpec) *)

\* the loop's thread takes the step that evaluates a coin
EvaluateStep ==
    /\ workers' # workers
    /\ \E wk \in BagToSet(workers) : wk.pc = "analyze"

\* the loop's thread as the step leaves it
ThreadAfter == CHOOSE w \in BagToSet(workers') : TRUE

C12_ErrorSkipsOneSymbol ==
    [][\A wk \in BagToSet(workers) :
           (wk.pc = "analyze" /\ wk.i < Len(wk.coins) /\ workers' # workers)
               => ThreadAfter.pc # "top"]_vars

\* C13: a Decision Loop thread ends only in a step taken at the top of a
\* cycle that finds running false.
C13_EndsOnlyOnFlag ==
    [][BagCardinality(workers') < BagCardinality(workers)
           => /\ ~running
              /\ \E wk \in BagToSet(workers) :
                     wk.pc = "top" /\ workers' = Remove(wk)]_vars

\* C13 witness: the thread has ended, and its last evaluation had raised.
C13_Witness ==
    /\ last.op = "evaluate"
    /\ last.kind = "raise"
    /\ workers = EmptyBag
    /\ ~running

\* C25: in every evaluation of a coin name by the Decision Loop, with or
\* without the 'USDT' suffix, the symbol whose candles are fetched and scored
\* is the symbol tested for an open position and bought or sold.
C25_ScoredSymbolIsTradedSymbol ==
    last.op = "evaluate" => last.analyzed = last.symbol

----------------------------------------------------------------------------
(* Claims about the indicators (ScoreSpec) *)

\* the call in hand is one of op, and has been made
Made(op) == last.op = op /\ last.ret # NotCalled

InRange(x) == FLe(Zero, x) /\ FLe(x, Hundred)

IsConstant(a) == \A i \in 1..Len(a) : a[i] = a[1]

\* C14: sigmoid_normalize returns, for any input including inputs of length
\* 0 and 1, an array of the input's length whose values all lie in [0, 100].
C14_NormalizerRange ==
    Made("sigmoid_normalize")
        => /\ Len(last.ret.value) = Len(last.data)
           /\ \A i \in 1..Len(last.ret.value) : InRange(last.ret.value[i])

\* the weights are non-negative and their sum is positive
ProperWeights(w) ==
    /\ \A i \in 1..4 : w[i].m >= 0
    /\ \E i \in 1..4 : w[i].m > 0

\* C15: for closes and volumes of length >= 2 and non-negative weights of
\* positive sum, every factor calculate_combined_score returns (price, volume,
\* rsi, rsi_normalized, volatility, combined) lies in [0, 100].
C15_ComponentsInRange ==
    (/\ Made("calculate_combined_score")
     /\ Len(last.df) >= 2
     /\ ProperWeights(last.weights))
        => /\ ~last.ret.raised
           /\ \A f \in DOMAIN last.ret.value : InRange(last.ret.value[f])

\* C16: sigmoid_normalize turns a constant input of length >= 2 into 50.0 at
\* every element, and calculate_volume_score gives 50.0 for a constant volume
\* series of length >= 2.
C16_ConstantIsNeutral ==
    /\ (Made("sigmoid_normalize") /\ Len(last.data) >= 2 /\ IsConstant(last.data))
           => \A i \in 1..Len(last.ret.value) : last.ret.value[i] = Fifty
    /\ (Made("calculate_volume_score") /\ Len(last.volumes) >= 2
            /\ IsConstant(last.volumes))
           => last.ret.value = Fifty

\* C17: on a series shorter than its minimum each scorer gives exactly 50.0:
\* price, volume and volatility scores on fewer than 2 points; on fewer than
\* period + 1 closes every point of calculate_rsi's series, and the RSI
\* component calculate_combined_score reports.
C17_ShortSeriesNeutral ==
    /\ (/\ \/ Made("calculate_price_score")
           \/ Made("calculate_volatility_score")
        /\ Len(last.closes) < 2)
           => last.ret.value = Fifty
    /\ (Made("calculate_volume_score") /\ Len(last.volumes) < 2)
           => last.ret.value = Fifty
    /\ (Made("calculate_rsi") /\ Len(last.closes) < last.period + 1)
           => /\ Len(last.ret.value) = Len(last.closes)
              /\ \A i \in 1..Len(last.ret.value) : last.ret.value[i] = Fifty
    /\ (Made("calculate_combined_score") /\ Len(last.df) < last.period + 1)
           => /\ ~last.ret.raised
              /\ last.ret.value.rsi_normalized = Fifty

\* C18: for a close series of length >= 2 that is not constant, the
\* volatility score, and the volatility component of the combined score, is
\* 50.0.
C18_VolatilityNeutral ==
    /\ (/\ Made("calculate_volatility_score")
        /\ Len(last.closes) >= 2
        /\ ~IsConstant(last.closes))
           => last.ret.value = Fifty
    /\ (/\ Made("calculate_combined_score")
        /\ Len(last.df) >= 2
        /\ ~IsConstant(ClosesOf(last.df)))
           => last.ret.value.volatility = Fifty

\* the four components the combined score averages
Averaged(c) == {c.price, c.volume, c.rsi_normalized, c.volatility}

\* x is at most every element of S / at least every element of S
AtMostAll(x, S) == \A y \in S : FLe(x, y)

AtLeastAll(x, S) == \A y \in S : FLe(y, x)

Allowance(x) == FMul(x, Fl(1, 4 - MantissaBits))

FAbs(x) == [m |-> Abs(x.m), e |-> x.e]

C20_ZeroWeights ==
    (/\ Made("calculate_combined_score")
     /\ \A i \in 1..4 : last.weights[i] = Zero)
        => /\ ~last.ret.raised
           /\ last.ret.value.combined = Zero

\* x is 50.0 up to the rounding allowance of a weighted mean
NearFifty(x) ==
    /\ FLe(FSub(Fifty, Allowance(Fifty)), x)
    /\ FLe(x, FAdd(Fifty, Allowance(Fifty)))

\* C21: on a candle series of length 0 or 1 the composite scorer (weights
\* non-negative, of positive sum) raises nothing and every component is 50.0,
\* combined being 50.0 up to the rounding of the weighted mean; and
\* get_multi_timeframe_scores raises nothing and gives the score 50.0 for
\* every frame of length 0 or 1.
C21_ShortSeriesDegrade ==
    /\ (/\ Made("calculate_combined_score")
        /\ Len(last.df) <= 1
        /\ ProperWeights(last.weights))
           => /\ ~last.ret.raised
              /\ Averaged(last.ret.value) = {Fifty}
              /\ NearFifty(last.ret.value.combined)
    /\ Made("get_multi_timeframe_scores")
           => /\ ~last.ret.raised
              /\ \A i \in DOMAIN last.ohlcv_dict :
                     Len(last.ohlcv_dict[i].value) <= 1
                         => Get(last.ret.value, last.ohlcv_dict[i].key).score = Fifty

----------------------------------------------------------------------------
(* Further claims about the ledger under a single caller (Spec) *)

\* the trades of symbol S, in the order of the log
TradesOf(S) == SelectSeq(trades, LAMBDA t : t.symbol = S)

CountOf(log, type) == Len(SelectSeq(log, LAMBDA t : t.type = type))

\* C22: in every reachable state and for every symbol S, the trades of S
\* alternate BUY, SELL, BUY, ... starting with BUY, and the BUY trades of S
\* outnumber its SELL trades by 1 when S has an open position and by 0 when
\* it has none.
C22_TradesAlternate ==
    \A S \in Symbols :
        /\ \A i \in 1..Len(TradesOf(S)) :
               TradesOf(S)[i].type = (IF i % 2 = 1 THEN "BUY" ELSE "SELL")
        /\ CountOf(TradesOf(S), "BUY") - CountOf(TradesOf(S), "SELL")
               = (IF HasKey(positions, S) THEN 1 ELSE 0)

\* C24: a sell on a symbol with an open position, whatever price the position
\* was opened at (0, the price of a failed fetch, included), either appends
\* a SELL trade and removes the position, or leaves the position open and
\* appends nothing.
C24_SellAllOrNothing ==
    [][(last'.op = "sell" /\ HasKey(positions, last'.symbol))
           => /\ Len(trades') > Len(trades) => ~HasKey(positions', last'.symbol)
              /\ HasKey(positions', last'.symbol) => trades' = trades]_vars

\* C26: for every symbol a close_all reports closed, the reported pnl is
\* (exit_price - entry_price) * quantity, exit_price being the one recorded
\* in the SELL trade the same call appended for the symbol, whatever prices
\* the provider returned during the call (stated for calls in which the
\* provider failed nothing, on positions opened at a live price).
C26_ReportedPnlMatchesTrade ==
    [][(last'.op = "close_all" /\ ProviderOk(last') /\ last'.unpriced0 = {})
           => \A i \in DOMAIN last'.closed :
                  LET S     == last'.closed[i].key
                      entry == Get(positions, S)
                      sold  == trades'[CHOOSE j \in (Len(trades) + 1)..Len(trades') :
                                           trades'[j].symbol = S]
                  IN  IsClosedEntry(last'.closed[i].value)
                          => last'.closed[i].value.pnl
                                 = (sold.exit_price - entry.entry_price) * entry.quantity]_vars

----------------------------------------------------------------------------
(* Claims about the dashboard's threads under fair scheduling (FairSpec) *)

\* C23: if from some point on running stays false (a stop command has been
\* served and no start command is issued after it), then from some point on
\* no Decision Loop thread is alive.
C23_WorkersEndAfterStop ==
    <>[](~running) => <>[](workers = EmptyBag)

\* C23 witness: a stop request has completed, a Decision Loop thread that
\* had traded is gone, and running is false.
C23_Witness ==
    /\ stopper.pc = "done"
    /\ ~running
    /\ workers = EmptyBag
    /\ \E i \in DOMAIN trades : trades[i].reason = "AI Signal"

====
